---- MODULE Spec2Model ----
(***************************************************************************)
(* Model of src/src/lib.rs: Citation::read and the serde-derived           *)
(* Deserialize implementations of Citation, Author and Type.               *)
(*                                                                         *)
(* A file is either unreadable or holds a YAML document.  A document is    *)
(* given as the tree the YAML parser yields: a root kind and, for a        *)
(* mapping root, the top-level entries <<key, node>> in document order.    *)
(* Scalars are read as text.  Null scalars, sequence roots and sequences   *)
(* given where a struct is expected are outside the input domain.          *)
(***************************************************************************)
EXTENDS Integers, Sequences, FiniteSets, TLC

(***************************************************************************)
(* Option<T>: None is the empty tuple, Some(x) the one-element tuple.      *)
(***************************************************************************)
None == <<>>
Some(x) == <<x>>
IsSome(o) == Len(o) > 0

(***************************************************************************)
(* YAML nodes.  A top-level value is a scalar, a sequence of items or a    *)
(* mapping; an item of a sequence is a scalar or a mapping whose entries   *)
(* are <<key, node>> pairs.                                                *)
(***************************************************************************)
Str(s) == [t |-> "str", s |-> s, items |-> <<>>]
SeqN(items) == [t |-> "seq", s |-> "", items |-> items]
MapN == [t |-> "map", s |-> "", items |-> <<>>]
StrItem(s) == [t |-> "str", s |-> s, entries |-> <<>>]
MapItem(entries) == [t |-> "map", s |-> "", entries |-> entries]

(***************************************************************************)
(* Results of deserialization: Result<T, serde_yaml::Error>.  An error is  *)
(* one value: its kind, the field it names ("" when it names none), the    *)
(* sequence field it was raised in ("" at the top level) and the index of  *)
(* the sequence element (0 at the top level).                              *)
(***************************************************************************)
Ok(v) == [ok |-> TRUE, val |-> Some(v), err |-> None]
Error(kind, field, at, idx) ==
    [kind |-> kind, field |-> field, at |-> at, idx |-> idx]
Fail(e) == [ok |-> FALSE, val |-> None, err |-> Some(e)]

(***************************************************************************)
(* The fields of Citation in declaration order, with the keys the derived  *)
(* field visitor accepts (the field's name and its serde aliases), the     *)
(* declared type and whether #[serde(default)] is set.                     *)
(***************************************************************************)
Field(name, keys, kind, default) ==
    [name |-> name, keys |-> keys, kind |-> kind, default |-> default]

CitationFields == <<
    Field("abstract", {"abstract"}, "OptString", FALSE),
    Field("authors", {"authors"}, "VecAuthor", FALSE),
    Field("cff_version", {"cff_version", "cff-version"}, "String", FALSE),
    Field("commit", {"commit"}, "OptString", FALSE),
    Field("contact", {"contact"}, "OptContact", FALSE),
    Field("date_released", {"date_released", "date-released"}, "OptString", FALSE),
    Field("dio", {"dio"}, "OptString", FALSE),
    Field("identifiers", {"identifiers"}, "VecIdentifier", TRUE),
    Field("keywords", {"keywords"}, "VecString", TRUE),
    Field("license", {"license"}, "OptLicense", FALSE),
    Field("license_url", {"license_url", "license-url"}, "OptString", FALSE),
    Field("message", {"message"}, "String", FALSE),
    Field("preferred_citation", {"preferred_citation", "preferred-citation"},
          "OptString", FALSE),
    Field("references", {"references"}, "VecReference", TRUE),
    Field("repository", {"repository"}, "OptString", FALSE),
    Field("repository_artifact", {"repository_artifact", "repository-artifact"},
          "OptString", FALSE),
    Field("repository_code", {"repository_code", "repository_code"},
          "OptString", FALSE),
    Field("title", {"title"}, "String", FALSE),
    Field("type", {"type", "type"}, "OptType", FALSE),
    Field("url", {"url"}, "OptString", FALSE),
    Field("version", {"version"}, "OptString", FALSE) >>

\* Author without the hyphenated aliases
AuthorFields_NoAlias == <<
    Field("given_names", {"given_names"}, "String", FALSE),
    Field("family_names", {"family_names"}, "String", FALSE),
    Field("email", {"email"}, "OptString", FALSE),
    Field("orcid", {"orcid"}, "OptString", FALSE) >>

AuthorFields == <<
    Field("given_names", {"given_names", "given-names"}, "String", FALSE),
    Field("family_names", {"family_names", "family-names"}, "String", FALSE),
    Field("email", {"email"}, "OptString", FALSE),
    Field("orcid", {"orcid"}, "OptString", FALSE) >>

(***************************************************************************)
(* The variants of Type: the variant's name and its serde aliases.         *)
(* License has no variants.                                                *)
(***************************************************************************)
TypeVariants == <<
    [name |-> "Software", keys |-> {"Software", "software"}],
    [name |-> "Dataset", keys |-> {"Dataset", "dataset"}] >>

LicenseVariants == <<>>

(***************************************************************************)
(* Enum deserialization: the token must be a variant's name or one of its  *)
(* aliases, compared exactly.                                              *)
(***************************************************************************)
MatchVariant(variants, token, field, at, idx) ==
    LET hits == {i \in 1..Len(variants) : token \in variants[i].keys}
    IN  IF hits = {}
        THEN Fail(Error("unknown_variant", field, at, idx))
        ELSE Ok(variants[CHOOSE i \in hits : TRUE].name)

(***************************************************************************)
(* The derived field visitor: the index of the field a key names, or 0 for *)
(* a key that names no field.  Keys are compared exactly.                  *)
(***************************************************************************)
FieldOf(fields, key) ==
    LET hits == {i \in 1..Len(fields) : key \in fields[i].keys}
    IN  IF hits = {} THEN 0 ELSE CHOOSE i \in hits : \A j \in hits : i <= j

OptionKinds == {"OptString", "OptContact", "OptLicense", "OptType"}

\* a missing field for which #[serde(default)] is not honoured
MissingField_NoDefault(f, at, idx) ==
    IF f.kind \in OptionKinds THEN Ok(None)
    ELSE Fail(Error("missing_field", f.name, at, idx))

(***************************************************************************)
(* A field no entry gave: #[serde(default)] yields the empty Vec, an       *)
(* Option field yields None, any other field is an error.                  *)
(***************************************************************************)
MissingField(f, at, idx) ==
    IF f.default THEN Ok(<<>>)
    ELSE IF f.kind \in OptionKinds THEN Ok(None)
    ELSE Fail(Error("missing_field", f.name, at, idx))

RECURSIVE DeserializeValue(_, _, _, _)
RECURSIVE DeserializeItems(_, _, _, _)
RECURSIVE VisitEntries(_, _, _, _, _, _)
RECURSIVE VisitStruct(_, _, _, _)

(***************************************************************************)
(* Deserialize one sequence element for a field of kind Vec<...>.          *)
(***************************************************************************)
DeserializeItem(f, item, idx) ==
    CASE f.kind = "VecString" ->
            IF item.t = "str" THEN Ok(item.s)
            ELSE Fail(Error("invalid_type", "", f.name, idx))
      [] f.kind = "VecAuthor" ->
            IF item.t = "map" THEN VisitStruct(AuthorFields, item.entries, f.name, idx)
            ELSE Fail(Error("invalid_type", "", f.name, idx))
      [] OTHER ->
            \* Identifier {} and Reference {}: structs without fields
            IF item.t = "map" THEN VisitStruct(<<>>, item.entries, f.name, idx)
            ELSE Fail(Error("invalid_type", "", f.name, idx))

(***************************************************************************)
(* Vec<T>: the elements in order, stopping at the first that fails.        *)
(***************************************************************************)
DeserializeItems(f, items, i, acc) ==
    IF i > Len(items) THEN Ok(acc)
    ELSE LET r == DeserializeItem(f, items[i], i)
         IN  IF r.ok THEN DeserializeItems(f, items, i + 1, Append(acc, r.val[1]))
             ELSE r

(***************************************************************************)
(* Deserialize the value of field f from a node, by the field's type.      *)
(***************************************************************************)
DeserializeValue(f, node, at, idx) ==
    LET bad == Fail(Error("invalid_type", f.name, at, idx))
    IN  CASE f.kind = "String" ->
                IF node.t = "str" THEN Ok(node.s) ELSE bad
          [] f.kind = "OptString" ->
                IF node.t = "str" THEN Ok(Some(node.s)) ELSE bad
          [] f.kind = "OptType" ->
                IF node.t = "str"
                THEN LET r == MatchVariant(TypeVariants, node.s, f.name, at, idx)
                     IN  IF r.ok THEN Ok(Some(r.val[1])) ELSE r
                ELSE bad
          [] f.kind = "OptLicense" ->
                IF node.t = "str"
                THEN LET r == MatchVariant(LicenseVariants, node.s, f.name, at, idx)
                     IN  IF r.ok THEN Ok(Some(r.val[1])) ELSE r
                ELSE bad
          [] f.kind = "OptContact" ->
                \* Contact {}: a struct without fields
                IF node.t = "map"
                THEN LET r == VisitStruct(<<>>, <<>>, f.name, 0)
                     IN  IF r.ok THEN Ok(Some(r.val[1])) ELSE r
                ELSE bad
          [] OTHER ->
                IF node.t = "seq" THEN DeserializeItems(f, node.items, 1, <<>>)
                ELSE bad

\* a loop that drops a value that fails to deserialize and goes on
RECURSIVE VisitEntries_SkipBad(_, _, _, _, _, _)
VisitEntries_SkipBad(fields, entries, i, slots, at, idx) ==
    IF i > Len(entries) THEN Ok(slots)
    ELSE LET n == FieldOf(fields, entries[i][1])
         IN  IF n = 0 THEN VisitEntries_SkipBad(fields, entries, i + 1, slots, at, idx)
             ELSE IF IsSome(slots[n])
             THEN Fail(Error("duplicate_field", fields[n].name, at, idx))
             ELSE LET r == DeserializeValue(fields[n], entries[i][2], at, idx)
                  IN  VisitEntries_SkipBad(fields, entries, i + 1,
                          IF r.ok THEN [slots EXCEPT ![n] = r.val] ELSE slots, at, idx)

\* a loop that rejects a key that names no field (deny_unknown_fields)
RECURSIVE VisitEntries_DenyUnknown(_, _, _, _, _, _)
VisitEntries_DenyUnknown(fields, entries, i, slots, at, idx) ==
    IF i > Len(entries) THEN Ok(slots)
    ELSE LET n == FieldOf(fields, entries[i][1])
         IN  IF n = 0 THEN Fail(Error("unknown_field", entries[i][1], at, idx))
             ELSE IF IsSome(slots[n])
             THEN Fail(Error("duplicate_field", fields[n].name, at, idx))
             ELSE LET r == DeserializeValue(fields[n], entries[i][2], at, idx)
                  IN  IF r.ok
                      THEN VisitEntries_DenyUnknown(fields, entries, i + 1,
                                        [slots EXCEPT ![n] = r.val], at, idx)
                      ELSE r

(***************************************************************************)
(* The derived visit_map loop: the entries in document order.  A key that  *)
(* names no field is skipped, a field given twice is an error, and the     *)
(* first value that fails to deserialize ends the loop.                    *)
(***************************************************************************)
VisitEntries(fields, entries, i, slots, at, idx) ==
    IF i > Len(entries) THEN Ok(slots)
    ELSE LET n == FieldOf(fields, entries[i][1])
         IN  IF n = 0 THEN VisitEntries(fields, entries, i + 1, slots, at, idx)
             ELSE IF IsSome(slots[n])
             THEN Fail(Error("duplicate_field", fields[n].name, at, idx))
             ELSE LET r == DeserializeValue(fields[n], entries[i][2], at, idx)
                  IN  IF r.ok
                      THEN VisitEntries(fields, entries, i + 1,
                                        [slots EXCEPT ![n] = r.val], at, idx)
                      ELSE r

(***************************************************************************)
(* After the loop every field is taken from its slot, or from MissingField *)
(* when no entry gave it, in declaration order; the struct is built only   *)
(* when no field failed.                                                   *)
(***************************************************************************)
BuildStruct(fields, slots, at, idx) ==
    LET filled == [i \in 1..Len(fields) |->
                      IF IsSome(slots[i]) THEN Ok(slots[i][1])
                      ELSE MissingField(fields[i], at, idx)]
        failed == {i \in 1..Len(fields) : ~filled[i].ok}
        names  == {fields[i].name : i \in 1..Len(fields)}
    IN  IF failed # {}
        THEN filled[CHOOSE i \in failed : \A j \in failed : i <= j]
        ELSE Ok([nm \in names |->
                    filled[CHOOSE i \in 1..Len(fields) : fields[i].name = nm].val[1]])

VisitStruct(fields, entries, at, idx) ==
    LET r == VisitEntries(fields, entries, 1, [i \in 1..Len(fields) |-> None], at, idx)
    IN  IF r.ok THEN BuildStruct(fields, r.val[1], at, idx) ELSE r

(***************************************************************************)
(* serde_yaml::from_str::<Citation>: a document that is no YAML or whose   *)
(* root is no mapping is an error, a mapping goes to the derived visitor.  *)
(***************************************************************************)
FromStr(doc) ==
    CASE doc.root = "malformed" -> Fail(Error("syntax", "", "", 0))
      [] doc.root = "scalar" -> Fail(Error("invalid_type", "", "", 0))
      [] OTHER -> VisitStruct(CitationFields, doc.entries, "", 0)

(***************************************************************************)
(* Input documents.                                                        *)
(***************************************************************************)
MaxExtra == 2
MaxUnknown == 2
MaxAuthors == 2

Entry(k, v) == <<k, v>>
Doc(root, entries) == [root |-> root, entries |-> entries]
SeqsUpTo(S, n) == UNION { [1..k -> S] : k \in 0..n }

PersonHy == MapItem(<< Entry("given-names", Str("Ada")),
                       Entry("family-names", Str("Lovelace")) >>)

EntityOnly == MapItem(<< Entry("name", Str("Acme")) >>)

\* the required keys, each absent or given once with a value of its type
CffChoices == { <<>>, << Entry("cff-version", Str("1.2.0")) >>,
                      << Entry("cff_version", Str("1.2.0")) >> }
MessageChoices == { <<>>, << Entry("message", Str("Please cite this")) >> }
TitleChoices == { <<>>, << Entry("title", Str("My Tool")) >> }
AuthorsChoices == { <<>>, << Entry("authors", SeqN(<<>>)) >>,
                          << Entry("authors", SeqN(<< PersonHy >>)) >> }

Cores == { c \o m \o t \o a : c \in CffChoices, m \in MessageChoices,
                              t \in TitleChoices, a \in AuthorsChoices }

ValidCores == { c \o m \o t \o a :
                  c \in CffChoices \ {<<>>}, m \in MessageChoices \ {<<>>},
                  t \in TitleChoices \ {<<>>},
                  a \in { << Entry("authors", SeqN(<< PersonHy >>)) >> } }

\* the accepted and the near-miss spellings of the multi-word keys
MultiWordKeys == {
    "date-released", "date_released", "Date-Released",
    "license-url", "license_url", "License-Url",
    "preferred-citation", "preferred_citation", "Preferred-Citation",
    "repository-artifact", "repository_artifact", "Repository-Artifact",
    "repository-code", "repository_code", "Repository-Code" }

TypeTokens == {"Software", "software", "Dataset", "dataset", "DATASET", "article"}

UnknownKeys == {"foo", "bar", "doi"}

ExtraEntries ==
    { Entry(k, Str(IF k \in {"date-released", "date_released", "Date-Released"}
                   THEN "2021-02-28" ELSE "https://example.org/x")) :
        k \in MultiWordKeys }
    \cup { Entry("date-released", Str("2021-02-30")),
           Entry("date_released", Str("2024-02-29")),
           Entry("date-released", Str("2023-02-29")),
           Entry("date-released", Str("yesterday")),
           Entry("cff_version", Str("1.1.0")),
           Entry("CFF-Version", Str("1.2.0")),
           Entry("title", Str("Other")),
           Entry("title", SeqN(<<>>)),
           Entry("message", MapN),
           Entry("keywords", SeqN(<<>>)),
           Entry("keywords", SeqN(<< StrItem("yaml") >>)),
           Entry("keywords", Str("yaml")),
           Entry("identifiers", SeqN(<<>>)),
           Entry("identifiers", SeqN(<< MapItem(<<>>) >>)),
           Entry("references", SeqN(<<>>)),
           Entry("license", Str("MIT")),
           Entry("abstract", Str("A tool")),
           Entry("contact", MapN),
           Entry("foo", Str("x")) }
    \cup { Entry("type", Str(tok)) : tok \in TypeTokens }

\* every combination of required keys, alone or with one more entry
\* before or after them
GeneralDocs ==
    { Doc("map", c) : c \in Cores }
    \cup { Doc("map", c \o << e >>) : c \in Cores, e \in ExtraEntries }
    \cup { Doc("map", << e >> \o c) : c \in Cores, e \in ExtraEntries }

\* entries that each carry one problem, or none
ProblemEntries == { Entry("type", Str("article")),
                    Entry("title", SeqN(<<>>)),
                    Entry("keywords", Str("yaml")),
                    Entry("date-released", Str("2021-02-30")),
                    Entry("keywords", SeqN(<<>>)),
                    Entry("foo", Str("x")) }

MultiCores == { c \o m \o t \o a :
                  c \in { <<>>, << Entry("cff-version", Str("1.2.0")) >> },
                  m \in MessageChoices, t \in TitleChoices,
                  a \in { <<>>, << Entry("authors", SeqN(<< PersonHy >>)) >>,
                               << Entry("authors", SeqN(<< PersonHy, EntityOnly >>)) >> } }

\* documents with several problems at once
MultiDocs ==
    { Doc("map", c \o e) : c \in MultiCores, e \in SeqsUpTo(ProblemEntries, MaxExtra) }
    \cup { Doc("map", e \o c) : c \in MultiCores,
                                e \in SeqsUpTo(ProblemEntries, MaxExtra) }

\* valid documents with keys that name no field
UnknownDocs ==
    { Doc("map", c \o u) : c \in ValidCores,
          u \in SeqsUpTo({ Entry(k, Str("x")) : k \in UnknownKeys }, MaxUnknown) }
    \cup { Doc("map", u \o c) : c \in ValidCores,
          u \in SeqsUpTo({ Entry(k, Str("x")) : k \in UnknownKeys }, MaxUnknown) }

\* author records by the keys they hold
GivenChoices == { <<>>, << Entry("given-names", Str("Ada")) >>,
                        << Entry("given_names", Str("Ada")) >> }
FamilyChoices == { <<>>, << Entry("family-names", Str("Lovelace")) >>,
                         << Entry("family_names", Str("Lovelace")) >> }
NameChoices == { <<>>, << Entry("name", Str("Acme")) >> }

AuthorItems ==
    { MapItem(g \o f \o n) : g \in GivenChoices, f \in FamilyChoices, n \in NameChoices }
    \cup { MapItem(<< Entry("given-names", Str("Ada")),
                      Entry("given_names", Str("Ada")),
                      Entry("family-names", Str("Lovelace")) >>),
           MapItem(<< Entry("family-names", Str("Lovelace")),
                      Entry("given-names", Str("Ada")),
                      Entry("email", Str("ada@example.org")) >>),
           StrItem("Ada Lovelace") }

\* documents that differ in their authors only
AuthorDocs ==
    { Doc("map", << Entry("cff-version", Str("1.2.0")),
                    Entry("message", Str("Please cite this")),
                    Entry("title", Str("My Tool")),
                    Entry("authors", SeqN(a)) >>) :
        a \in SeqsUpTo(AuthorItems, MaxAuthors) }

Docs == GeneralDocs \cup MultiDocs \cup UnknownDocs \cup AuthorDocs
           \cup { Doc("scalar", <<>>), Doc("malformed", <<>>) }

Files == { [readable |-> TRUE, doc |-> d] : d \in Docs }
            \cup { [readable |-> FALSE, doc |-> Doc("malformed", <<>>)] }

(***************************************************************************)
(* Citation::read(path).                                                   *)
(*   file     what the path holds                                          *)
(*   pc       "read" before read_to_string, "parse" before from_str,       *)
(*            "done" once read has returned                                *)
(*   content  the text read_to_string returned, if it did                  *)
(*   result   what read returned: Ok(Citation) or Err(error)               *)
(***************************************************************************)
VARIABLES file, pc, content, result

vars == <<file, pc, content, result>>

Init ==
    /\ file \in Files
    /\ pc = "read"
    /\ content = None
    /\ result = None

\* a read that goes on with an empty text when the file cannot be read
ReadToString_Unwrap ==
    /\ pc = "read"
    /\ content' = Some(IF file.readable THEN file.doc ELSE Doc("malformed", <<>>))
    /\ pc' = "parse"
    /\ UNCHANGED <<file, result>>

\* let content = std::fs::read_to_string(path)?;
ReadToString ==
    /\ pc = "read"
    /\ IF file.readable
       THEN /\ content' = Some(file.doc)
            /\ pc' = "parse"
            /\ result' = result
       ELSE /\ content' = content
            /\ pc' = "done"
            /\ result' = Some(Fail(Error("io", "", "", 0)))
    /\ UNCHANGED file

\* Ok(serde_yaml::from_str(&content)?)
Parse ==
    /\ pc = "parse"
    /\ result' = Some(FromStr(content[1]))
    /\ pc' = "done"
    /\ UNCHANGED <<file, content>>

Next == ReadToString \/ Parse

Spec == Init /\ [][Next]_vars

(***************************************************************************)
(* Vocabulary of the properties.                                           *)
(***************************************************************************)
Done == pc = "done"
\* read has returned and from_str ran on a mapping document
Parsed == pc = "done" /\ file.readable /\ file.doc.root = "map"
Succeeded == Parsed /\ result[1].ok
Failed == Parsed /\ ~result[1].ok
Cit == result[1].val[1]
Err == result[1].err[1]

Entries == file.doc.entries
HasKey(entries, keys) == \E i \in 1..Len(entries) : entries[i][1] \in keys
KeyCount(entries, keys) == Cardinality({i \in 1..Len(entries) : entries[i][1] \in keys})
FirstWithKey(entries, keys) ==
    entries[CHOOSE i \in 1..Len(entries) :
               /\ entries[i][1] \in keys
               /\ \A j \in 1..(i - 1) : entries[j][1] \notin keys]
RemoveAt(entries, i) == SubSeq(entries, 1, i - 1) \o SubSeq(entries, i + 1, Len(entries))
WithoutKeys(entries, keys) ==
    SelectSeq(entries, LAMBDA e : e[1] \notin keys)
DecodeOf(entries) == FromStr(Doc("map", entries))
\* the entries decode, and into a Citation with an author
ValidDoc(entries) ==
    LET r == DecodeOf(entries) IN r.ok /\ Len(r.val[1].authors) >= 1

\* the text the format defines for an absent message (doc comment of
\* Citation::message)
DefaultMessage ==
    "If you use this software, please cite it using the metadata from this file."

\* the keys of the required fields as the format spells them, each with a
\* value of its type
RequiredKeys == [title |-> {"title"},
                 cff_version |-> {"cff-version", "cff_version"},
                 authors |-> {"authors"},
                 message |-> {"message"}]
GoodEntry == [title |-> Entry("title", Str("My Tool")),
              cff_version |-> Entry("cff-version", Str("1.2.0")),
              authors |-> Entry("authors", SeqN(<< PersonHy >>)),
              message |-> Entry("message", Str("Please cite this"))]
\* the document is valid except that it lacks the required field f
LacksOnly(entries, f) ==
    /\ ~HasKey(entries, RequiredKeys[f])
    /\ ValidDoc(entries \o << GoodEntry[f] >>)

\* the field-level problems of a mapping document: an entry whose key names
\* a field and whose value does not deserialize or whose field an earlier
\* entry gave, and a required field no entry gives
ValueProblemAt(entries, i) ==
    LET n == FieldOf(CitationFields, entries[i][1])
    IN  /\ n # 0
        /\ \/ \E j \in 1..(i - 1) : FieldOf(CitationFields, entries[j][1]) = n
           \/ ~DeserializeValue(CitationFields[n], entries[i][2], "", 0).ok
ValueProblems(entries) == {i \in 1..Len(entries) : ValueProblemAt(entries, i)}
RequiredOrder == <<"authors", "cff_version", "message", "title">>
MissingRequired(entries) ==
    {k \in 1..Len(RequiredOrder) : ~HasKey(entries, RequiredKeys[RequiredOrder[k]])}
NumProblems(entries) ==
    Cardinality(ValueProblems(entries)) + Cardinality(MissingRequired(entries))
Least(S) == CHOOSE i \in S : \A j \in S : i <= j

(***************************************************************************)
(* C1: a document that lacks only title, cff-version or authors fails      *)
(* with a missing-field error naming that field, and a document that lacks *)
(* only message decodes, its message being the default text.               *)
(***************************************************************************)
Orig_C1 ==
    Parsed =>
        /\ \A f \in {"title", "cff_version", "authors"} :
              LacksOnly(Entries, f) =>
                  /\ ~result[1].ok
                  /\ Err.kind = "missing_field"
                  /\ Err.field = f
        /\ LacksOnly(Entries, "message") =>
              /\ result[1].ok
              /\ Cit.message = DefaultMessage

(***************************************************************************)
(* C2: in a document that is valid apart from its type, an absent type     *)
(* decodes as Software, a token that equals "software" or "dataset" when   *)
(* letter case is ignored decodes as that variant, and any other token     *)
(* fails with an invalid-enum-value error.                                 *)
(***************************************************************************)
ToLower == [tok \in TypeTokens |->
              CASE tok \in {"Software", "software"} -> "software"
                [] tok \in {"Dataset", "dataset", "DATASET"} -> "dataset"
                [] OTHER -> tok]
ValidApartFromType(entries) ==
    /\ KeyCount(entries, {"type"}) <= 1
    /\ ValidDoc(WithoutKeys(entries, {"type"}))
    /\ HasKey(entries, {"type"}) =>
          LET v == FirstWithKey(entries, {"type"})[2]
          IN  v.t = "str" /\ v.s \in TypeTokens
TypeToken(entries) == FirstWithKey(entries, {"type"})[2].s

Orig_C2 ==
    (Parsed /\ ValidApartFromType(Entries)) =>
        IF ~HasKey(Entries, {"type"})
        THEN result[1].ok /\ Cit.type = Some("Software")
        ELSE CASE ToLower[TypeToken(Entries)] = "software" ->
                      result[1].ok /\ Cit.type = Some("Software")
               [] ToLower[TypeToken(Entries)] = "dataset" ->
                      result[1].ok /\ Cit.type = Some("Dataset")
               [] OTHER ->
                      ~result[1].ok /\ Err.kind = "unknown_variant"
                                    /\ Err.field = "type"

(***************************************************************************)
(* C4: every Citation a successful decode returns has at least one author. *)
(***************************************************************************)
Orig_C4 == Succeeded => Len(Cit.authors) >= 1

(***************************************************************************)
(* C5: a value given under the hyphenated or under the underscored         *)
(* spelling of a multi-word key decodes into the one field of that name;   *)
(* a spelling that differs in letter case leaves the field unset.          *)
(***************************************************************************)
MultiWordFields == {"cff_version", "date_released", "license_url",
                    "preferred_citation", "repository_artifact", "repository_code"}
Hyphenated == [f \in MultiWordFields |->
                  CASE f = "cff_version" -> "cff-version"
                    [] f = "date_released" -> "date-released"
                    [] f = "license_url" -> "license-url"
                    [] f = "preferred_citation" -> "preferred-citation"
                    [] f = "repository_artifact" -> "repository-artifact"
                    [] f = "repository_code" -> "repository-code"]
CaseVariant == [f \in MultiWordFields |->
                  CASE f = "cff_version" -> "CFF-Version"
                    [] f = "date_released" -> "Date-Released"
                    [] f = "license_url" -> "License-Url"
                    [] f = "preferred_citation" -> "Preferred-Citation"
                    [] f = "repository_artifact" -> "Repository-Artifact"
                    [] f = "repository_code" -> "Repository-Code"]
Spellings(f) == {f, Hyphenated[f]}
\* the text a decoded field holds: v for String and for Some(v)
Holds(c, f, v) == IF f = "cff_version" THEN c[f] = v ELSE c[f] = Some(v)

Orig_C5 ==
    Parsed =>
        \A f \in MultiWordFields : \A i \in 1..Len(Entries) :
            LET rest == RemoveAt(Entries, i)
                othersOk == /\ ~HasKey(rest, Spellings(f) \cup {CaseVariant[f]})
                            /\ IF f = "cff_version"
                               THEN ValidDoc(rest \o << GoodEntry[f] >>)
                               ELSE ValidDoc(rest)
            IN  /\ (Entries[i][1] \in Spellings(f) /\ Entries[i][2].t = "str"
                        /\ othersOk)
                      => (result[1].ok /\ Holds(Cit, f, Entries[i][2].s))
                /\ (Entries[i][1] = CaseVariant[f] /\ othersOk /\ f # "cff_version")
                      => (result[1].ok /\ Cit[f] = None)

(***************************************************************************)
(* C8: no Citation is returned whose date_released matches the             *)
(* year-month-day pattern without being a real calendar date.              *)
(***************************************************************************)
\* the texts of the input domain that match dddd-dd-dd, with their numbers
DateTexts == {"2021-02-28", "2021-02-30", "2024-02-29", "2023-02-29"}
DateParts == [d \in DateTexts |->
                 CASE d = "2021-02-28" -> <<2021, 2, 28>>
                   [] d = "2021-02-30" -> <<2021, 2, 30>>
                   [] d = "2024-02-29" -> <<2024, 2, 29>>
                   [] d = "2023-02-29" -> <<2023, 2, 29>>]
MatchesDatePattern(s) == s \in DateTexts
IsLeap(y) == (y % 4 = 0 /\ y % 100 # 0) \/ y % 400 = 0
DaysIn(y, m) ==
    CASE m \in {1, 3, 5, 7, 8, 10, 12} -> 31
      [] m \in {4, 6, 9, 11} -> 30
      [] m = 2 -> IF IsLeap(y) THEN 29 ELSE 28
      [] OTHER -> 0
IsCalendarDate(s) ==
    /\ MatchesDatePattern(s)
    /\ LET p == DateParts[s]
       IN  p[2] \in 1..12 /\ p[3] >= 1 /\ p[3] <= DaysIn(p[1], p[2])

Orig_C8 ==
    (Succeeded /\ IsSome(Cit.date_released)
               /\ MatchesDatePattern(Cit.date_released[1]))
        => IsCalendarDate(Cit.date_released[1])

(***************************************************************************)
(* C3: an author record decodes into the one Author shape exactly when it  *)
(* is a mapping that gives the given names once and the family names once, *)
(* hyphenated or underscored; a name key is skipped, so a record with the  *)
(* person keys and name decodes as that person; a record that lacks the    *)
(* given or the family names fails with a missing-field error naming the   *)
(* first of the two that is missing, one that gives either twice fails     *)
(* with a duplicate-field error; the first failing record ends the        *)
(* decoding unless an earlier top-level entry has failed already.            *)
(***************************************************************************)
GivenKeys == {"given-names", "given_names"}
FamilyKeys == {"family-names", "family_names"}
\* some entry of a record repeats the field an earlier entry gave
FirstRepeated(entries) ==
    LET fieldOf(k) == IF k \in GivenKeys THEN "given_names"
                      ELSE IF k \in FamilyKeys THEN "family_names" ELSE k
        reps == {i \in 1..Len(entries) :
                    /\ entries[i][1] \in GivenKeys \cup FamilyKeys
                    /\ \E j \in 1..(i - 1) :
                          fieldOf(entries[j][1]) = fieldOf(entries[i][1])}
    IN  IF reps = {} THEN ""
        ELSE fieldOf(entries[CHOOSE i \in reps : \A j \in reps : i <= j][1])
\* what decoding one author record gives: <<"ok", "">> or <<error kind, field>>
ExpectedAuthor(item) ==
    IF item.t # "map" THEN <<"invalid_type", "">>
    ELSE IF FirstRepeated(item.entries) # ""
    THEN <<"duplicate_field", FirstRepeated(item.entries)>>
    ELSE IF ~HasKey(item.entries, GivenKeys) THEN <<"missing_field", "given_names">>
    ELSE IF ~HasKey(item.entries, FamilyKeys) THEN <<"missing_field", "family_names">>
    ELSE <<"ok", "">>
\* the document gives authors once, as a sequence
AuthorsGiven == KeyCount(Entries, {"authors"}) = 1
                    /\ FirstWithKey(Entries, {"authors"})[2].t = "seq"
AuthorItemsOf(entries) == FirstWithKey(entries, {"authors"})[2].items

ClaimedAuthor(item) ==
    LET person == HasKey(item.entries, GivenKeys) /\ HasKey(item.entries, FamilyKeys)
        entity == HasKey(item.entries, {"name"})
    IN  CASE person /\ entity -> "ambiguous_variant"
          [] person -> "Person"
          [] entity -> "Entity"
          [] OTHER -> "unrecognized_variant"

ExpectedError(entries) ==
    IF ValueProblems(entries) # {}
    THEN LET i == Least(ValueProblems(entries))
             n == FieldOf(CitationFields, entries[i][1])
             r == DeserializeValue(CitationFields[n], entries[i][2], "", 0)
         IN  IF \E j \in 1..(i - 1) : FieldOf(CitationFields, entries[j][1]) = n
             THEN Error("duplicate_field", CitationFields[n].name, "", 0)
             ELSE r.err[1]
    ELSE Error("missing_field", RequiredOrder[Least(MissingRequired(entries))], "", 0)

Theorem_C6 ==
    /\ Parsed =>
          /\ result[1].ok <=> NumProblems(Entries) = 0
          /\ NumProblems(Entries) >= 1 =>
                /\ Len(result[1].err) = 1
                /\ Err = ExpectedError(Entries)
    /\ (Done /\ file.readable /\ file.doc.root # "map") =>
          ~result[1].ok /\ Len(result[1].err) = 1

\* C6 as stated: all k problems are reported by the one call
Orig_C6 ==
    (Parsed /\ NumProblems(Entries) >= 1) =>
        ~result[1].ok /\ Len(result[1].err) = NumProblems(Entries)

\* C6: a document with three or more problems failed with one error
Witness_C6 ==
    /\ Failed
    /\ Cardinality(ValueProblems(Entries)) >= 2
    /\ Cardinality(MissingRequired(Entries)) >= 1
    /\ Len(result[1].err) = 1
    /\ Err = ExpectedError(Entries)

(***************************************************************************)
(* C7: keys that name no field are skipped silently: read returns what it  *)
(* returns for the document without them, so a document that is valid      *)
(* apart from n such keys decodes with no error and no warning, and no     *)
(* unknown-field error is ever returned.                                   *)
(***************************************************************************)
RecognizedKeys == UNION {CitationFields[i].keys : i \in 1..Len(CitationFields)}
NumUnknown(entries) ==
    Cardinality({i \in 1..Len(entries) : entries[i][1] \notin RecognizedKeys})
\* the unknown-field reports, errors or warnings, that a result carries
UnknownFieldReports(res) ==
    Cardinality({i \in 1..Len(res.err) : res.err[i].kind = "unknown_field"})

Theorem_C7 ==
    Parsed =>
        LET known == SelectSeq(Entries, LAMBDA e : e[1] \in RecognizedKeys)
        IN  /\ result[1] = DecodeOf(known)
            /\ UnknownFieldReports(result[1]) = 0
            /\ ValidDoc(known) => (result[1].ok /\ result[1].err = None)

\* C7 as stated: n unknown keys give n unknown-field reports
Orig_C7 ==
    LET known == SelectSeq(Entries, LAMBDA e : e[1] \in RecognizedKeys)
    IN  (Parsed /\ ValidDoc(known)) =>
            UnknownFieldReports(result[1]) = NumUnknown(Entries)

\* C7: a document with two keys that name no field was decoded
Witness_C7 ==
    /\ Succeeded
    /\ NumUnknown(Entries) = 2
    /\ Len(Cit.authors) >= 1

(***************************************************************************)
(* C9: the absence of an optional field never fails decoding: a missing-   *)
(* field error names a required field only; identifiers, keywords and      *)
(* references decode to the empty sequence when their key is absent, the   *)
(* result being that of the document with the key and an empty sequence;   *)
(* an optional field whose key is absent is left unset.                    *)
(***************************************************************************)
SeqFields == {"identifiers", "keywords", "references"}
OptionalFields == {"abstract", "commit", "contact", "date_released", "dio",
                   "license", "license_url", "preferred_citation", "repository",
                   "repository_artifact", "repository_code", "type", "url",
                   "version"}
KeysOf(f) == IF f \in MultiWordFields THEN Spellings(f) ELSE {f}

Theorem_C9 ==
    Parsed =>
        /\ (~result[1].ok /\ Err.kind = "missing_field" /\ Err.at = "") =>
              Err.field \in {"authors", "cff_version", "message", "title"}
        /\ \A f \in SeqFields :
              ~HasKey(Entries, {f}) =>
                  /\ result[1].ok => Cit[f] = <<>>
                  /\ DecodeOf(Entries \o << Entry(f, SeqN(<<>>)) >>) = result[1]
        /\ \A f \in OptionalFields :
              (result[1].ok /\ ~HasKey(Entries, KeysOf(f))) => Cit[f] = None

\* C9: a document without any optional key was decoded
Witness_C9 ==
    /\ Succeeded
    /\ \A f \in SeqFields \cup OptionalFields : ~HasKey(Entries, KeysOf(f))
    /\ \A f \in SeqFields \cup OptionalFields : Cit[f] = <<>>

(***************************************************************************)
(* C10: read returns a complete Citation or an error, never both and never *)
(* a Citation with fields left out: when the file cannot be read the error *)
(* is returned and from_str never runs; when from_str fails no Citation is *)
(* returned; a Citation is returned only when both steps succeeded.        *)
(***************************************************************************)
AllFieldNames == {"abstract", "authors", "cff_version", "commit", "contact",
                  "date_released", "dio", "identifiers", "keywords", "license",
                  "license_url", "message", "preferred_citation", "references",
                  "repository", "repository_artifact", "repository_code", "title",
                  "type", "url", "version"}

Theorem_C10 ==
    /\ (pc = "done") <=> (result # None)
    /\ (pc = "parse") => (file.readable /\ content = Some(file.doc))
    /\ Done =>
          /\ Len(result) = 1
          /\ \/ result[1].ok /\ Len(result[1].val) = 1 /\ result[1].err = None
             \/ ~result[1].ok /\ result[1].val = None /\ Len(result[1].err) = 1
          /\ ~file.readable =>
                /\ content = None
                /\ ~result[1].ok
                /\ result[1].err[1].kind = "io"
          /\ result[1].ok =>
                /\ file.readable
                /\ content = Some(file.doc)
                /\ DOMAIN result[1].val[1] = AllFieldNames
                /\ \A f \in {"title", "message", "cff_version"} :
                      result[1].val[1][f]
                          = FirstWithKey(file.doc.entries, RequiredKeys[f])[2].s
          /\ (file.readable /\ ~result[1].ok) => result[1].err[1].kind # "io"

\* C10: read returned the I/O error of a file that cannot be read
Witness_C10 ==
    /\ Done
    /\ ~file.readable
    /\ ~result[1].ok
    /\ result[1].val = None
    /\ result[1].err[1].kind = "io"

====
